---- MODULE Spec2Model ----
(***************************************************************************)
(* Model of the google-tasks MCP server (src/src/index.ts): the tool-call  *)
(* and resource-read request handlers, their validators and sanitizer, the *)
(* remote Google Tasks calls they issue and the operator log (stderr).     *)
(*                                                                         *)
(* A JavaScript value is a record [t, s]: t is the typeof tag and s the    *)
(* content of a string.  Free-text strings (title, notes, taskId) are      *)
(* sequences of character codes; status strings, tool names and messages   *)
(* are TLA+ strings, since the code only compares them for equality.       *)
(***************************************************************************)
EXTENDS Integers, Sequences, FiniteSets, TLC

\* ------------------------------------------------------------ bounds
\* longest short free-text string enumerated exhaustively
MaxLen == 3
\* number of invocations that may be in flight together (SpecConc)
NumSlots == 2

\* ------------------------------------------------------------ constants
MAX_TITLE_LENGTH == 256
MAX_NOTES_LENGTH == 8192
MAX_TASK_ID_LENGTH == 256
VALID_TASK_STATUSES == <<"needsAction", "completed">>

\* ------------------------------------------------------------ JS values
Undefined == [t |-> "undefined", s |-> <<>>]
NumberVal == [t |-> "number", s |-> <<>>]
Str(chars) == [t |-> "string", s |-> chars]

UndefinedStatus == [t |-> "undefined", s |-> ""]
NumberStatus == [t |-> "number", s |-> ""]
NullStatus == [t |-> "object", s |-> ""]
StatusStr(str) == [t |-> "string", s |-> str]

\* JavaScript truthiness: a string is truthy iff it is non-empty; undefined and
\* null are falsy; the number used as an input is 42, which is truthy.
TruthyText(v) == \/ v.t = "string" /\ v.s # <<>>
                 \/ v.t = "number"
TruthyStatus(v) == \/ v.t = "string" /\ v.s # ""
                   \/ v.t = "number"

\* String.prototype.length
Length(v) == Len(v.s)

\* characters String.prototype.trim removes (WhiteSpace and LineTerminator)
WhiteSpace == {9, 10, 11, 12, 13, 32, 160, 5760, 8232, 8233, 8239, 8287, 12288, 65279}
                 \cup (8192..8202)
\* characters matched by /[\x00-\x1F\x7F]/
ControlChars == (0..31) \cup {127}

\* String.prototype.trim
Trim(chars) ==
    LET keep == {k \in 1..Len(chars) : chars[k] \notin WhiteSpace}
        first == CHOOSE k \in keep : \A m \in keep : k <= m
        last == CHOOSE k \in keep : \A m \in keep : m <= k
    IN  IF keep = {} THEN <<>> ELSE SubSeq(chars, first, last)

\* .replace(/[\x00-\x1F\x7F]/g, '')
IsNotControl(c) == c \notin ControlChars
StripControl(chars) == SelectSeq(chars, IsNotControl)

\* sanitizeString: throws a plain Error on a non-string, else trims and then
\* removes the control characters.
sanitizeString(input) ==
    IF input.t # "string"
    THEN [threw |-> TRUE, value |-> <<>>]
    ELSE [threw |-> FALSE, value |-> StripControl(Trim(input.s))]

\* mutant: any non-empty string passes as a status
isValidTaskStatus_Loose(status) == status # ""

isValidTaskStatus(status) ==
    \E k \in 1..Len(VALID_TASK_STATUSES) : VALID_TASK_STATUSES[k] = status

\* ------------------------------------------------------------ validators
\* mutant: the title's length is measured after trimming
isValidCreateTaskArgs_TrimmedLength(args) ==
    /\ args.isObject
    /\ args.title.t # "undefined" =>
         (args.title.t = "string" /\ Len(Trim(args.title.s)) <= MAX_TITLE_LENGTH)
    /\ args.notes.t # "undefined" =>
         (args.notes.t = "string" /\ Length(args.notes) <= MAX_NOTES_LENGTH)
    /\ args.taskId.t # "undefined" =>
         (args.taskId.t = "string" /\ Length(args.taskId) <= MAX_TASK_ID_LENGTH)
    /\ args.status.t # "undefined" =>
         (args.status.t = "string" /\ isValidTaskStatus(args.status.s))

\* an argument bag: isObject is (typeof args === "object" && args !== null)
isValidCreateTaskArgs(args) ==
    IF ~args.isObject THEN FALSE
    ELSE IF /\ args.title.t # "undefined"
            /\ (args.title.t # "string" \/ Length(args.title) > MAX_TITLE_LENGTH)
         THEN FALSE
    ELSE IF /\ args.notes.t # "undefined"
            /\ (args.notes.t # "string" \/ Length(args.notes) > MAX_NOTES_LENGTH)
         THEN FALSE
    ELSE IF /\ args.taskId.t # "undefined"
            /\ (args.taskId.t # "string" \/ Length(args.taskId) > MAX_TASK_ID_LENGTH)
         THEN FALSE
    ELSE IF /\ args.status.t # "undefined"
            /\ (args.status.t # "string" \/ ~isValidTaskStatus(args.status.s))
         THEN FALSE
    ELSE TRUE

isValidDeleteTaskArgs(args) ==
    /\ args.isObject
    /\ args.taskId.t = "string"
    /\ Length(args.taskId) > 0
    /\ Length(args.taskId) <= MAX_TASK_ID_LENGTH

isValidCompleteTaskArgs(args) ==
    IF ~args.isObject THEN FALSE
    ELSE IF \/ args.taskId.t # "string"
            \/ Length(args.taskId) = 0
            \/ Length(args.taskId) > MAX_TASK_ID_LENGTH
         THEN FALSE
    ELSE IF /\ args.status.t # "undefined"
            /\ (args.status.t # "string" \/ ~isValidTaskStatus(args.status.s))
         THEN FALSE
    ELSE TRUE

\* ------------------------------------------------------------ errors
GenericErrorMessage == "An error occurred while processing your request"
UnknownErrorMessage == "Unknown error occurred"

\* mutant: the Error's own message is passed on
getSafeErrorMessage_Leaky(error) ==
    IF error.isError
    THEN [message |-> error.detail, logged |-> TRUE]
    ELSE [message |-> UnknownErrorMessage, logged |-> FALSE]

\* getSafeErrorMessage: the message it returns, and whether it logs the error
getSafeErrorMessage(error) ==
    IF error.isError
    THEN [message |-> GenericErrorMessage, logged |-> TRUE]
    ELSE [message |-> UnknownErrorMessage, logged |-> FALSE]

NoText == [fmt |-> "none", v |-> ""]
\* JSON.stringify(data, null, 2) of a remote representation
JSONstringify(data) == [fmt |-> "json", v |-> data]
PlainText(str) == [fmt |-> "plain", v |-> str]

NoOutcome == [kind |-> "none", code |-> "", message |-> "", text |-> NoText]
McpError(code, message) ==
    [kind |-> "McpError", code |-> code, message |-> message, text |-> NoText]
PlainError(message) ==
    [kind |-> "Error", code |-> "", message |-> message, text |-> NoText]
Content(text) ==
    [kind |-> "result", code |-> "", message |-> "", text |-> text]

CreateInvalidMessage == "Invalid arguments for creating a task."
DeleteInvalidMessage == "Invalid arguments for deleting a task."
CompleteInvalidMessage == "Invalid arguments for completing a task."
TitleEmptyMessage == "Task title cannot be empty after sanitization."
TaskIdEmptyMessage == "Task ID cannot be empty after sanitization."
StatusInvalidMessage == "Invalid task status. Must be 'needsAction' or 'completed'."
NotStringMessage == "Input must be a string"
UnknownToolMessage == "Unknown tool"
UnknownResourceMessage == "Unknown resource"

\* ------------------------------------------------------------ remote calls
DefaultList == "@default"
NoCall == [method |-> "none", tasklist |-> "", task |-> Undefined,
           title |-> Undefined, notes |-> Undefined, status |-> UndefinedStatus]
ListCall == [NoCall EXCEPT !.method = "list", !.tasklist = DefaultList]
InsertCall(title, notes, status) ==
    [NoCall EXCEPT !.method = "insert", !.tasklist = DefaultList,
                   !.title = title, !.notes = notes, !.status = status]
DeleteCall(task) ==
    [NoCall EXCEPT !.method = "delete", !.tasklist = DefaultList, !.task = task]
PatchCall(task, status) ==
    [NoCall EXCEPT !.method = "patch", !.tasklist = DefaultList,
                   !.task = task, !.status = status]

NoResult == [kind |-> "none", data |-> "", isError |-> FALSE, detail |-> ""]
Resolved(data) == [NoResult EXCEPT !.kind = "resolved", !.data = data]
Rejected(isError, detail) ==
    [NoResult EXCEPT !.kind = "rejected", !.isError = isError, !.detail = detail]

\* ------------------------------------------------------------ state
Slots == 1..NumSlots

VARIABLES
    pc,       \* per invocation: "idle", "awaiting" (a remote call is pending), "done"
    req,      \* the request: protocol method, tool name or uri, argument bag
    call,     \* the remote call the invocation issued (NoCall if none)
    ncalls,   \* number of remote calls the invocation has issued
    ran,      \* the validators and sanitizer the invocation has run
    res,      \* how the remote call settled (NoResult until then)
    outcome,  \* what the handler returned or threw
    log       \* console.error lines written by getSafeErrorMessage, in order

vars == <<pc, req, call, ncalls, ran, res, outcome, log>>

NoArgs == [isObject |-> FALSE, title |-> Undefined, notes |-> Undefined,
           taskId |-> Undefined, status |-> UndefinedStatus]
Args(title, notes, taskId, status) ==
    [isObject |-> TRUE, title |-> title, notes |-> notes,
     taskId |-> taskId, status |-> status]
NoReq == [method |-> "none", name |-> "", arguments |-> NoArgs]
ToolCall(name, args) == [method |-> "tools/call", name |-> name, arguments |-> args]
ResourceRead(uri) == [method |-> "resources/read", name |-> uri, arguments |-> NoArgs]

Init ==
    /\ pc = [i \in Slots |-> "idle"]
    /\ req = [i \in Slots |-> NoReq]
    /\ call = [i \in Slots |-> NoCall]
    /\ ncalls = [i \in Slots |-> 0]
    /\ ran = [i \in Slots |-> {}]
    /\ res = [i \in Slots |-> NoResult]
    /\ outcome = [i \in Slots |-> NoOutcome]
    /\ log = <<>>

\* the handler throws (or returns) before any await
Finish(i, r, fns, out) ==
    /\ pc' = [pc EXCEPT ![i] = "done"]
    /\ req' = [req EXCEPT ![i] = r]
    /\ ran' = [ran EXCEPT ![i] = fns]
    /\ outcome' = [outcome EXCEPT ![i] = out]
    /\ UNCHANGED <<call, ncalls, res, log>>

\* the handler issues a remote call and awaits it
Issue(i, r, fns, c) ==
    /\ pc' = [pc EXCEPT ![i] = "awaiting"]
    /\ req' = [req EXCEPT ![i] = r]
    /\ ran' = [ran EXCEPT ![i] = fns]
    /\ call' = [call EXCEPT ![i] = c]
    /\ ncalls' = [ncalls EXCEPT ![i] = @ + 1]
    /\ UNCHANGED <<res, outcome, log>>

\* mutant: the create_task branch matches the name without regard to case
Dispatch_CaseInsensitive(name) ==
    IF name = "list_tasks" THEN "list_tasks"
    ELSE IF name \in {"create_task", "Create_Task"} THEN "create_task"
    ELSE IF name = "delete_task" THEN "delete_task"
    ELSE IF name = "complete_task" THEN "complete_task"
    ELSE "MethodNotFound"

\* the if-chain of the CallToolRequestSchema handler on request.params.name
Dispatch(name) ==
    IF name = "list_tasks" THEN "list_tasks"
    ELSE IF name = "create_task" THEN "create_task"
    ELSE IF name = "delete_task" THEN "delete_task"
    ELSE IF name = "complete_task" THEN "complete_task"
    ELSE "MethodNotFound"

\* ------------------------------------------------------------ handlers
\* Each handler draws the request's tool name and argument bag from the sets
\* it is given and runs up to its first await or throw.
ListTasks(i, names, inputs) ==
    /\ pc[i] = "idle"
    /\ \E name \in names :
         /\ Dispatch(name) = "list_tasks"
         /\ \E args \in inputs : Issue(i, ToolCall(name, args), {}, ListCall)

CreateTask(i, names, inputs) ==
    /\ pc[i] = "idle"
    /\ \E name \in names :
         /\ Dispatch(name) = "create_task"
         /\ \E args \in inputs :
              LET r == ToolCall(name, args)
                  sanitizedTitle == sanitizeString(args.title)
                  sanitizedNotes == IF TruthyText(args.notes)
                                    THEN Str(sanitizeString(args.notes).value)
                                    ELSE Undefined
              IN  IF ~isValidCreateTaskArgs(args)
                  THEN Finish(i, r, {"isValidCreateTaskArgs"},
                              McpError("InvalidParams", CreateInvalidMessage))
                  ELSE IF sanitizedTitle.threw
                  THEN Finish(i, r, {"isValidCreateTaskArgs", "sanitizeString"},
                              PlainError(NotStringMessage))
                  ELSE IF sanitizedTitle.value = <<>>
                  THEN Finish(i, r, {"isValidCreateTaskArgs", "sanitizeString"},
                              McpError("InvalidParams", TitleEmptyMessage))
                  ELSE Issue(i, r, {"isValidCreateTaskArgs", "sanitizeString"},
                             InsertCall(Str(sanitizedTitle.value), sanitizedNotes,
                                        args.status))

\* mutant: the remote delete is issued before the arguments are validated
DeleteTask_CallFirst(i, names, inputs) ==
    /\ pc[i] = "idle"
    /\ \E name \in names :
         /\ Dispatch(name) = "delete_task"
         /\ \E args \in inputs :
              /\ req' = [req EXCEPT ![i] = ToolCall(name, args)]
              /\ ran' = [ran EXCEPT ![i] = {"isValidDeleteTaskArgs"}]
              /\ call' = [call EXCEPT ![i] = DeleteCall(args.taskId)]
              /\ ncalls' = [ncalls EXCEPT ![i] = @ + 1]
              /\ IF ~isValidDeleteTaskArgs(args)
                 THEN /\ pc' = [pc EXCEPT ![i] = "done"]
                      /\ outcome' = [outcome EXCEPT ![i] =
                                       McpError("InvalidParams", DeleteInvalidMessage)]
                 ELSE /\ pc' = [pc EXCEPT ![i] = "awaiting"]
                      /\ UNCHANGED outcome
              /\ UNCHANGED <<res, log>>

DeleteTask(i, names, inputs) ==
    /\ pc[i] = "idle"
    /\ \E name \in names :
         /\ Dispatch(name) = "delete_task"
         /\ \E args \in inputs :
              LET r == ToolCall(name, args)
                  taskId == sanitizeString(args.taskId)
              IN  IF ~isValidDeleteTaskArgs(args)
                  THEN Finish(i, r, {"isValidDeleteTaskArgs"},
                              McpError("InvalidParams", DeleteInvalidMessage))
                  ELSE IF taskId.threw
                  THEN Finish(i, r, {"isValidDeleteTaskArgs", "sanitizeString"},
                              PlainError(NotStringMessage))
                  ELSE IF taskId.value = <<>>
                  THEN Finish(i, r, {"isValidDeleteTaskArgs", "sanitizeString"},
                              McpError("InvalidParams", TaskIdEmptyMessage))
                  ELSE Issue(i, r, {"isValidDeleteTaskArgs", "sanitizeString"},
                             DeleteCall(Str(taskId.value)))

\* mutant: the default is the other status
DefaultStatus_NeedsAction(status) ==
    IF TruthyStatus(status) THEN status ELSE StatusStr("needsAction")

\* args.status || 'completed'
DefaultStatus(status) ==
    IF TruthyStatus(status) THEN status ELSE StatusStr("completed")

CompleteTask(i, names, inputs) ==
    /\ pc[i] = "idle"
    /\ \E name \in names :
         /\ Dispatch(name) = "complete_task"
         /\ \E args \in inputs :
              LET r == ToolCall(name, args)
                  taskId == sanitizeString(args.taskId)
                  newStatus == DefaultStatus(args.status)
              IN  IF ~isValidCompleteTaskArgs(args)
                  THEN Finish(i, r, {"isValidCompleteTaskArgs"},
                              McpError("InvalidParams", CompleteInvalidMessage))
                  ELSE IF taskId.threw
                  THEN Finish(i, r, {"isValidCompleteTaskArgs", "sanitizeString"},
                              PlainError(NotStringMessage))
                  ELSE IF taskId.value = <<>>
                  THEN Finish(i, r, {"isValidCompleteTaskArgs", "sanitizeString"},
                              McpError("InvalidParams", TaskIdEmptyMessage))
                  ELSE IF ~(newStatus.t = "string" /\ isValidTaskStatus(newStatus.s))
                  THEN Finish(i, r, {"isValidCompleteTaskArgs", "sanitizeString",
                                     "isValidTaskStatus"},
                              McpError("InvalidParams", StatusInvalidMessage))
                  ELSE Issue(i, r, {"isValidCompleteTaskArgs", "sanitizeString",
                                    "isValidTaskStatus"},
                             PatchCall(Str(taskId.value), newStatus))

\* no branch of the if-chain matched: the handler's final throw
UnknownTool(i, names, inputs) ==
    /\ pc[i] = "idle"
    /\ \E name \in names :
         /\ Dispatch(name) = "MethodNotFound"
         /\ \E args \in inputs :
              Finish(i, ToolCall(name, args), {},
                     McpError("MethodNotFound", UnknownToolMessage))

\* the ReadResourceRequestSchema handler
ReadResource(i, uris) ==
    /\ pc[i] = "idle"
    /\ \E uri \in uris :
         IF uri # "tasks://default"
         THEN Finish(i, ResourceRead(uri), {},
                     McpError("InvalidRequest", UnknownResourceMessage))
         ELSE Issue(i, ResourceRead(uri), {}, ListCall)

\* the awaited remote call resolves with `data`
RemoteResolve(i, data) ==
    /\ pc[i] = "awaiting"
    /\ pc' = [pc EXCEPT ![i] = "done"]
    /\ res' = [res EXCEPT ![i] = Resolved(data)]
    /\ outcome' = [outcome EXCEPT ![i] =
                     IF call[i].method = "delete"
                     THEN Content(PlainText("Task deleted successfully."))
                     ELSE Content(JSONstringify(data))]
    /\ UNCHANGED <<req, call, ncalls, ran, log>>

\* the awaited remote call throws `error`; the catch block runs
RemoteReject(i, error) ==
    /\ pc[i] = "awaiting"
    /\ pc' = [pc EXCEPT ![i] = "done"]
    /\ res' = [res EXCEPT ![i] = Rejected(error.isError, error.detail)]
    /\ LET safe == getSafeErrorMessage(error)
       IN  /\ outcome' = [outcome EXCEPT ![i] = McpError("InternalError", safe.message)]
           /\ log' = IF safe.logged THEN Append(log, error.detail) ELSE log
    /\ UNCHANGED <<req, call, ncalls, ran>>

\* ------------------------------------------------------------ inputs
Repeat(c, n) == [k \in 1..n |-> c]

\* SOH (control), TAB (control and whitespace), SPACE (whitespace), 'a'
Alphabet == {1, 9, 32, 97}
ShortStrings == UNION {[1..k -> Alphabet] : k \in 0..MaxLen}
LongStrings == {Repeat(97, MAX_TITLE_LENGTH),
                Repeat(97, MAX_TITLE_LENGTH + 1),
                <<32>> \o Repeat(97, MAX_TITLE_LENGTH),
                Repeat(32, MAX_TITLE_LENGTH + 1)}
TextInputs == {Undefined, NumberVal} \cup {Str(chars) : chars \in ShortStrings \cup LongStrings}
NotesInputs == {Undefined, NumberVal, Str(<<>>), Str(<<32>>), Str(<<1, 32, 97, 9>>),
                Str(Repeat(97, MAX_NOTES_LENGTH + 1))}
StatusInputs == {UndefinedStatus, NumberStatus, NullStatus}
                   \cup {StatusStr(str) : str \in {"needsAction", "completed", "", "Completed"}}
ToolNames == {"list_tasks", "create_task", "delete_task", "complete_task",
              "update_task", "Create_Task", ""}
Uris == {"tasks://default", "tasks://other"}
RemoteData == {"rep-1", "rep-2"}
Failures == {[isError |-> TRUE, detail |-> "ETIMEDOUT"],
             [isError |-> TRUE, detail |-> "401 invalid_grant"],
             [isError |-> FALSE, detail |-> "503 backend error"]}

CreateInputs ==
    {NoArgs} \cup {Args(title, notes, taskId, status) :
                     title \in TextInputs, notes \in NotesInputs,
                     taskId \in {Undefined, NumberVal, Str(<<97>>)},
                     status \in StatusInputs}
DeleteInputs ==
    {NoArgs} \cup {Args(Undefined, Undefined, taskId, UndefinedStatus) : taskId \in TextInputs}
CompleteInputs ==
    {NoArgs} \cup {Args(Undefined, Undefined, taskId, status) :
                     taskId \in TextInputs, status \in StatusInputs}
OtherInputs == {NoArgs, Args(Str(<<97>>), Undefined, Str(<<97>>), StatusStr("completed"))}

\* one invocation at a time, over the full input sets
Next ==
    \/ ListTasks(1, ToolNames, OtherInputs)
    \/ CreateTask(1, ToolNames, CreateInputs)
    \/ DeleteTask(1, ToolNames, DeleteInputs)
    \/ CompleteTask(1, ToolNames, CompleteInputs)
    \/ UnknownTool(1, ToolNames, OtherInputs)
    \/ ReadResource(1, Uris)
    \/ \E data \in RemoteData : RemoteResolve(1, data)
    \/ \E error \in Failures : RemoteReject(1, error)

Spec == Init /\ [][Next]_vars

\* concurrent invocations, interleaving at the awaits, over a few inputs each
ConcNames == {"list_tasks", "create_task", "delete_task", "complete_task", "update_task"}
ConcCreateInputs ==
    {Args(title, Undefined, Undefined, UndefinedStatus) : title \in {Undefined, Str(<<97>>)}}
ConcDeleteInputs ==
    {Args(Undefined, Undefined, taskId, UndefinedStatus) : taskId \in {Str(<<>>), Str(<<97>>)}}
ConcCompleteInputs ==
    {Args(Undefined, Undefined, taskId, status) :
       taskId \in {Str(<<>>), Str(<<32, 97>>)},
       status \in {UndefinedStatus, StatusStr("completed"),
                   StatusStr("needsAction"), StatusStr("done")}}

NextConc ==
    \E i \in Slots :
        \/ ListTasks(i, ConcNames, {NoArgs})
        \/ CreateTask(i, ConcNames, ConcCreateInputs)
        \/ DeleteTask(i, ConcNames, ConcDeleteInputs)
        \/ CompleteTask(i, ConcNames, ConcCompleteInputs)
        \/ UnknownTool(i, ConcNames, {NoArgs})
        \/ ReadResource(i, Uris)
        \/ \E data \in RemoteData : RemoteResolve(i, data)
        \/ \E error \in Failures : RemoteReject(i, error)

SpecConc == Init /\ [][NextConc]_vars

\* ------------------------------------------------------------ properties
Invoked(i) == pc[i] # "idle"
IsTool(i, name) == Invoked(i) /\ req[i].method = "tools/call" /\ req[i].name = name
RejectedWith(i, code) ==
    /\ pc[i] = "done"
    /\ outcome[i].kind = "McpError"
    /\ outcome[i].code = code
RemoteFailed(i) == pc[i] = "done" /\ res[i].kind = "rejected"

\* no control character, no leading or trailing whitespace character
Clean(chars) ==
    /\ \A k \in 1..Len(chars) : chars[k] \notin ControlChars
    /\ chars # <<>> => (chars[1] \notin WhiteSpace /\ chars[Len(chars)] \notin WhiteSpace)

\* only whitespace and/or control characters
Blank(chars) == \A k \in 1..Len(chars) : chars[k] \in WhiteSpace \cup ControlChars

\* C1: a create_task invocation with no title, an empty title or a title that
\* is empty after sanitization is rejected with InvalidParams and issues no
\* remote insert call.
C1_UntitledCreateRejected ==
    \A i \in Slots :
        (/\ IsTool(i, "create_task")
         /\ \/ req[i].arguments.title.t = "undefined"
            \/ /\ req[i].arguments.title.t = "string"
               /\ sanitizeString(req[i].arguments.title).value = <<>>)
        => (RejectedWith(i, "InvalidParams") /\ ncalls[i] = 0)

\* C2: a create_task invocation whose title consists only of whitespace
\* and/or ASCII control characters is rejected with InvalidParams and issues
\* no remote insert call.
C2_BlankTitleRejected ==
    \A i \in Slots :
        (/\ IsTool(i, "create_task")
         /\ req[i].arguments.title.t = "string"
         /\ Blank(req[i].arguments.title.s))
        => (RejectedWith(i, "InvalidParams") /\ ncalls[i] = 0)

\* C3: every free-text value carried by a remote call (title and notes of an
\* insert, task ID of a delete or patch) has no control character and no
\* leading or trailing whitespace.
C3_OutboundTextClean ==
    \A i \in Slots :
        /\ call[i].method = "insert" =>
             /\ Clean(call[i].title.s)
             /\ call[i].notes.t = "string" => Clean(call[i].notes.s)
        /\ call[i].method \in {"delete", "patch"} => Clean(call[i].task.s)

\* C4 (as claimed): every failed remote call yields an InternalError with one
\* fixed message, the same whatever the failure was.
C4_OneFixedMessage ==
    \A i, j \in Slots :
        (RemoteFailed(i) /\ RemoteFailed(j))
        => /\ RejectedWith(i, "InternalError")
           /\ outcome[i].message = outcome[j].message

\* C4 (amended): every failed remote call yields an InternalError whose
\* message is one of the two fixed generic strings and is not the failure's
\* text; which of the two depends only on whether the thrown value is an
\* Error, so two failures of the same kind yield identical outcomes.
C4_GenericMessage ==
    \A i, j \in Slots :
        (RemoteFailed(i) /\ RemoteFailed(j))
        => /\ RejectedWith(i, "InternalError")
           /\ outcome[i].message \in {GenericErrorMessage, UnknownErrorMessage}
           /\ outcome[i].message # res[i].detail
           /\ res[i].isError = res[j].isError => outcome[i] = outcome[j]

C4_Witness ==
    \E i, j \in Slots :
        /\ RemoteFailed(i) /\ RemoteFailed(j)
        /\ res[i].isError /\ res[j].isError
        /\ res[i].detail # res[j].detail
        /\ call[i].method # call[j].method

\* C5: for create_task and complete_task a status argument that is present
\* and is not exactly 'needsAction' or 'completed' is rejected with
\* InvalidParams; every status carried by a remote insert is absent or one of
\* the two, and every status carried by a remote patch is one of the two.
C5_StatusEnumerated ==
    \A i \in Slots :
        /\ (/\ IsTool(i, "create_task") \/ IsTool(i, "complete_task")
            /\ req[i].arguments.isObject
            /\ req[i].arguments.status.t # "undefined"
            /\ req[i].arguments.status \notin
                 {StatusStr("needsAction"), StatusStr("completed")})
           => (RejectedWith(i, "InvalidParams") /\ ncalls[i] = 0)
        /\ call[i].method = "insert" =>
             call[i].status \in {UndefinedStatus, StatusStr("needsAction"),
                                 StatusStr("completed")}
        /\ call[i].method = "patch" =>
             call[i].status \in {StatusStr("needsAction"), StatusStr("completed")}

C5_Witness ==
    \E i \in Slots :
        /\ IsTool(i, "create_task")
        /\ req[i].arguments.status = StatusStr("Completed")
        /\ req[i].arguments.title = Str(<<97>>)
        /\ RejectedWith(i, "InvalidParams")

\* C6: an invocation that ends in InvalidParams or MethodNotFound has issued
\* no remote call, every invocation issues at most one remote call, and
\* delete_task with taskId "" is rejected with no remote call, however the
\* invocations interleave.
C6_ValidationBeforeRemote ==
    \A i \in Slots :
        /\ (RejectedWith(i, "InvalidParams") \/ RejectedWith(i, "MethodNotFound"))
           => (ncalls[i] = 0 /\ call[i] = NoCall)
        /\ ncalls[i] <= 1
        /\ (IsTool(i, "delete_task") /\ req[i].arguments.taskId = Str(<<>>))
           => (RejectedWith(i, "InvalidParams") /\ ncalls[i] = 0)

C6_Witness ==
    \E i, j \in Slots :
        /\ pc[i] = "awaiting"
        /\ IsTool(j, "delete_task")
        /\ req[j].arguments.taskId = Str(<<>>)
        /\ RejectedWith(j, "InvalidParams")

\* C7: a create_task invocation whose title, as supplied, is a string longer
\* than 256 characters is rejected with InvalidParams and issues no remote
\* insert call, whatever the other arguments are.
C7_LongTitleRejected ==
    \A i \in Slots :
        (/\ IsTool(i, "create_task")
         /\ req[i].arguments.title.t = "string"
         /\ Len(req[i].arguments.title.s) > 256)
        => (RejectedWith(i, "InvalidParams") /\ ncalls[i] = 0)

C7_Witness ==
    \E i \in Slots :
        /\ IsTool(i, "create_task")
        /\ req[i].arguments.title = Str(<<32>> \o Repeat(97, 256))
        /\ req[i].arguments.notes = Undefined
        /\ req[i].arguments.status = UndefinedStatus
        /\ RejectedWith(i, "InvalidParams")

\* C8: complete_task with no status behaves as complete_task with status
\* 'completed' on the same taskId: both are rejected with the same error, or
\* both issue the same patch call (default list, same task ID, only status
\* 'completed') and return the same response for the same remote result.
C8_DefaultIsCompleted ==
    \A i, j \in Slots :
        (/\ IsTool(i, "complete_task") /\ IsTool(j, "complete_task")
         /\ req[i].arguments.taskId = req[j].arguments.taskId
         /\ req[i].arguments.status = UndefinedStatus
         /\ req[j].arguments.status = StatusStr("completed"))
        => /\ call[i] = call[j]
           /\ ncalls[i] = ncalls[j]
           /\ ncalls[i] = 0 => (pc[i] = "done" /\ outcome[i] = outcome[j])
           /\ ncalls[i] = 1 =>
                /\ call[i].method = "patch"
                /\ call[i].tasklist = "@default"
                /\ call[i].task.t = "string"
                /\ call[i].status = StatusStr("completed")
                /\ call[i].title = Undefined /\ call[i].notes = Undefined
           /\ (pc[i] = "done" /\ pc[j] = "done" /\ res[i] = res[j])
                => outcome[i] = outcome[j]

C8_Witness ==
    \E i, j \in Slots :
        /\ IsTool(i, "complete_task") /\ IsTool(j, "complete_task")
        /\ req[i].arguments.taskId = req[j].arguments.taskId
        /\ req[i].arguments.status = UndefinedStatus
        /\ req[j].arguments.status = StatusStr("completed")
        /\ res[i].kind = "resolved" /\ res[j] = res[i]
        /\ outcome[i].kind = "result"

\* C9: a tool invocation whose name is not create_task, list_tasks,
\* delete_task or complete_task fails with MethodNotFound, whatever its
\* arguments, and runs no validator, no sanitizer and no remote call.
C9_UnknownToolNotFound ==
    \A i \in Slots :
        (/\ Invoked(i)
         /\ req[i].method = "tools/call"
         /\ req[i].name \notin {"create_task", "list_tasks", "delete_task", "complete_task"})
        => /\ RejectedWith(i, "MethodNotFound")
           /\ ran[i] = {}
           /\ ncalls[i] = 0

C9_Witness ==
    \E i \in Slots :
        /\ req[i].method = "tools/call"
        /\ req[i].name = "Create_Task"
        /\ req[i].arguments.isObject
        /\ RejectedWith(i, "MethodNotFound")

\* C10: whenever a remote call has failed and the internal error has been
\* returned, the failure's detail is in the operator log, whether or not the
\* thrown value is an Error.
C10_FailureLogged ==
    \A i \in Slots :
        RemoteFailed(i) => \E k \in 1..Len(log) : log[k] = res[i].detail

====
